---- MODULE Spec2Model ----
(***************************************************************************)
(* Model of src/update-pl.py: a Lambda handler that reconciles an EC2      *)
(* managed prefix list against the IPv4 addresses of a list of FQDNs.      *)
(*                                                                         *)
(* Text that the program formats, compares or sorts (IP addresses, CIDRs)  *)
(* is a sequence of character codes, so that f"{ip}/32" is a real          *)
(* concatenation and sorted() is the lexicographic order of str.           *)
(* Hostnames and the pieces of FQDN_LIST are TLA+ strings.                 *)
(***************************************************************************)
EXTENDS Integers, Sequences, FiniteSets, TLC

VARIABLES
    FQDN_LIST,    \* os.environ["FQDN_LIST"], a sequence of pieces: "," "\n" " " or name text
    pl,           \* the remote prefix list: Version, MaxEntries, AddressFamily, State, Entries
    plHist,       \* plHist[v]: the entry set the remote list had at version v
    extWrites,    \* number of modifications made by other writers so far
    uuids,        \* number of uuid.uuid4() values drawn so far
    runs,         \* number of handler invocations started so far
    prev,         \* summary of the previous invocation
    pc,           \* position of the handler
    version, max_entries, af, state,   \* handler locals, line 44
    fqdns, idx, out,                   \* _fqdns_from_env() and the loop of _resolve_ipv4_cidrs
    desired, current, to_add, to_del,  \* handler locals, lines 48-58
    new_ver,                           \* handler local, line 81
    outcome,      \* how the invocation ended: a returned dict or a raised exception
    trace,        \* remote and DNS calls of the current invocation, in order
    warned,       \* hostnames of the [WARN] lines printed by the current invocation
    start         \* extWrites and the list's Version when the current invocation started

vars == <<FQDN_LIST, pl, plHist, extWrites, uuids, runs, prev, pc, version,
          max_entries, af, state, fqdns, idx, out, desired, current, to_add,
          to_del, new_ver, outcome, trace, warned, start>>

envVars == <<FQDN_LIST, pl, plHist, extWrites>>
locals == <<version, max_entries, af, state, fqdns, idx, out, desired, current,
            to_add, to_del, new_ver>>

(***************************************************************************)
(* Bounds of the model                                                     *)
(***************************************************************************)
MaxRuns == 2
MaxExtWrites == 1

(***************************************************************************)
(* Program constants                                                       *)
(***************************************************************************)
MAX_ENTRIES == 60

(***************************************************************************)
(* Text                                                                    *)
(***************************************************************************)
Range(s) == {s[k] : k \in 1..Len(s)}

RECURSIVE Decimal(_)
Decimal(n) == IF n < 10 THEN <<48 + n>> ELSE Decimal(n \div 10) \o <<48 + (n % 10)>>

\* the text "a.b.c.d"
Dotted(a, b, c, d) ==
    Decimal(a) \o <<46>> \o Decimal(b) \o <<46>> \o Decimal(c) \o <<46>> \o Decimal(d)

\* the text "2001:db8::1"
V6Text == <<50, 48, 48, 49, 58, 100, 98, 56, 58, 58, 49>>

\* str.__lt__: lexicographic order by character code
StrLess(s, t) ==
    \/ \E k \in 1..Len(s) : /\ k <= Len(t)
                            /\ s[k] < t[k]
                            /\ \A j \in 1..(k - 1) : s[j] = t[j]
    \/ /\ Len(s) < Len(t)
       /\ \A j \in 1..Len(s) : s[j] = t[j]

\* ipaddress.ip_address(ip).version; 0 stands for ValueError
ip_version(ip) ==
    IF 58 \in Range(ip) THEN 6
    ELSE IF /\ Cardinality({k \in 1..Len(ip) : ip[k] = 46}) = 3
            /\ \A k \in 1..Len(ip) : ip[k] = 46 \/ ip[k] \in 48..57
         THEN 4
         ELSE 0

\* f"{ip}/32"
Cidr32(ip) == ip \o <<47, 51, 50>>

\* sorted(S) of a set of str
RECURSIVE sorted(_)
sorted(S) ==
    IF S = {} THEN <<>>
    ELSE LET least == CHOOSE x \in S : \A y \in S : ~StrLess(y, x)
         IN <<least>> \o sorted(S \ {least})

(***************************************************************************)
(* _fqdns_from_env                                                         *)
(***************************************************************************)
\* FQDN_LIST.replace(",", "\n")
ReplaceCommas(s) == [k \in 1..Len(s) |-> IF s[k] = "," THEN "\n" ELSE s[k]]

\* str.splitlines(): the lines between "\n" pieces
RECURSIVE SplitLines(_, _)
SplitLines(s, line) ==
    IF s = <<>> THEN (IF line = <<>> THEN <<>> ELSE <<line>>)
    ELSE IF Head(s) = "\n" THEN <<line>> \o SplitLines(Tail(s), <<>>)
    ELSE SplitLines(Tail(s), Append(line, Head(s)))

\* str.strip(): leading and trailing blanks removed
RECURSIVE Strip(_)
Strip(line) ==
    IF line = <<>> THEN <<>>
    ELSE IF Head(line) = " " THEN Strip(Tail(line))
    ELSE IF line[Len(line)] = " " THEN Strip(SubSeq(line, 1, Len(line) - 1))
    ELSE line

\* the text of a line of pieces
RECURSIVE Join(_)
Join(line) == IF line = <<>> THEN "" ELSE Head(line) \o Join(Tail(line))

\* the list comprehension of line 14: the stripped lines that are not empty
RECURSIVE StrippedNonEmpty(_)
StrippedNonEmpty(lines) ==
    IF lines = <<>> THEN <<>>
    ELSE (IF Strip(Head(lines)) # <<>> THEN <<Join(Strip(Head(lines)))>> ELSE <<>>)
         \o StrippedNonEmpty(Tail(lines))

_fqdns_from_env(env) == StrippedNonEmpty(SplitLines(ReplaceCommas(env), <<>>))

(***************************************************************************)
(* The environment: configuration, DNS, the remote list                    *)
(***************************************************************************)
FqdnConfigs ==
    { <<>>,
      <<"a.example", ",", "b.example">>,
      <<" ", "b.example", " ", "\n", ",", "\n", "b.example", ",">> }

\* a configuration whose hosts resolve to MAX_ENTRIES addresses and one more
BigConfig == <<"big.example", "\n", "a.example">>

\* what socket.getaddrinfo(h, None) can give: the sa[0] of its tuples, or "fail"
DnsAnswers(h) ==
    IF h = "a.example"
    THEN {<<"fail">>, <<Dotted(1, 2, 3, 4), Dotted(1, 2, 3, 4), V6Text>>, <<V6Text>>}
    ELSE IF h = "b.example"
    THEN {<<"fail">>, <<Dotted(1, 2, 3, 5), Dotted(1, 2, 3, 6)>>}
    ELSE IF h = "big.example"
    THEN {[k \in 1..(MAX_ENTRIES - 1) |-> Dotted(10, 0, 0, k)],
          [k \in 1..MAX_ENTRIES |-> Dotted(10, 0, 0, k)]}
    ELSE {<<"fail">>}

\* an entry of the remote list
Entry(cidr, description) == [Cidr |-> cidr, Description |-> description]

\* the lists the model starts from; Version is 1 at the start
InitialLists ==
    { [MaxEntries |-> 100, State |-> "modify-complete", Entries |-> <<>>],
      [MaxEntries |-> 1000, State |-> "modify-complete", Entries |->
         <<Entry(Cidr32(Dotted(1, 2, 3, 4)), "managed"), Entry(Cidr32(Dotted(9, 9, 9, 9)), "old")>>],
      [MaxEntries |-> 100, State |-> "modify-in-progress", Entries |->
         <<Entry(Cidr32(Dotted(1, 2, 3, 4)), "managed"), Entry(Cidr32(Dotted(9, 9, 9, 9)), "old")>>],
      [MaxEntries |-> 100, State |-> "modify-complete", Entries |->
         <<Entry(Cidr32(Dotted(1, 2, 3, 6)), "managed"), Entry(Cidr32(Dotted(1, 2, 3, 5)), "managed"),
           Entry(Cidr32(Dotted(1, 2, 3, 4)), "managed")>>] }

\* a list that already holds most of what BigConfig resolves to
BigList ==
    [MaxEntries |-> 100, State |-> "modify-complete", Entries |->
       [k \in 1..(MAX_ENTRIES - 1) |-> Entry(Cidr32(Dotted(10, 0, 0, k)), "managed")]
       \o <<Entry(Cidr32(Dotted(9, 9, 9, 9)), "old")>>]

\* the configuration and the list a behaviour starts from
Scenarios ==
    {[env |-> e, list |-> l] : e \in FqdnConfigs, l \in InitialLists}
    \cup {[env |-> BigConfig, list |-> BigList]}

\* what another writer may add to or remove from the list
ExternalCidrs == {Cidr32(Dotted(9, 9, 9, 9))}

\* the CIDRs of a sequence of entries
Cidrs(entries) == {entries[k].Cidr : k \in 1..Len(entries)}

NoOutcome == [kind |-> "none"]
NoPrev == [kind |-> "none"]

Init ==
    /\ \E fam \in {"IPv4", "IPv6"}, sc \in Scenarios :
         /\ FQDN_LIST = sc.env
         /\ pl = [Version |-> 1, MaxEntries |-> sc.list.MaxEntries, AddressFamily |-> fam,
                  State |-> sc.list.State, Entries |-> sc.list.Entries]
    /\ plHist = <<Cidrs(pl.Entries)>>
    /\ extWrites = 0
    /\ uuids = 0
    /\ runs = 0
    /\ prev = NoPrev
    /\ pc = "idle"
    /\ version = 0 /\ max_entries = 0 /\ af = "" /\ state = ""
    /\ fqdns = <<>> /\ idx = 1 /\ out = {}
    /\ desired = {} /\ current = {} /\ to_add = <<>> /\ to_del = <<>>
    /\ new_ver = 0
    /\ outcome = NoOutcome
    /\ trace = <<>>
    /\ warned = <<>>
    /\ start = [ext |-> 0, ver |-> 1]

(***************************************************************************)
(* Remote API (the calls made through the boto3 client, line 6)            *)
(***************************************************************************)
DESC == "managed"

\* _pl_meta: describe_managed_prefix_lists(...)["PrefixLists"][0]
_pl_meta == <<pl.Version, pl.MaxEntries, pl.AddressFamily, pl.State>>

PageSize == 2

\* the pages the paginator of get_managed_prefix_list_entries yields for the
\* entries q: PageSize entries a page, the last page with what is left
Pages(q) ==
    LET n == IF Len(q) = 0 THEN 1 ELSE (Len(q) + PageSize - 1) \div PageSize
    IN [p \in 1..n |->
          [Entries |-> SubSeq(q, (p - 1) * PageSize + 1,
                              IF p * PageSize < Len(q) THEN p * PageSize ELSE Len(q))]]

\* faulty variant: only the first page is read
_current_cidrs_first_page == Cidrs(Pages(pl.Entries)[1].Entries)

\* _current_cidrs: the Cidr of every entry of every page
_current_cidrs == UNION {Cidrs(page.Entries) : page \in Range(Pages(pl.Entries))}

\* faulty variant: the request carries no RemoveEntries
ModifyRequestNoRemove(cur_ver, token) ==
    [op |-> "modify",
     CurrentVersion |-> cur_ver,
     AddEntries |-> [k \in 1..Len(to_add) |-> [Cidr |-> to_add[k], Description |-> DESC]],
     RemoveEntries |-> <<>>,
     ClientToken |-> token]

\* faulty variant: one token for the whole run
ModifyRequestRunToken(cur_ver, token) ==
    [op |-> "modify",
     CurrentVersion |-> cur_ver,
     AddEntries |-> [k \in 1..Len(to_add) |-> [Cidr |-> to_add[k], Description |-> DESC]],
     RemoveEntries |-> [k \in 1..Len(to_del) |-> [Cidr |-> to_del[k]]],
     ClientToken |-> runs]

\* the request _modify(cur_ver) sends
ModifyRequest(cur_ver, token) ==
    [op |-> "modify",
     CurrentVersion |-> cur_ver,
     AddEntries |-> [k \in 1..Len(to_add) |-> [Cidr |-> to_add[k], Description |-> DESC]],
     RemoveEntries |-> [k \in 1..Len(to_del) |-> [Cidr |-> to_del[k]]],
     ClientToken |-> token]

\* how the remote list can answer an update that states cur_ver: "ok" needs an
\* idle list at exactly that version; any other answer is a ClientError code
ModifyAnswers(cur_ver) ==
    (IF pl.State = "modify-in-progress" THEN {"IncorrectState"}
     ELSE IF cur_ver # pl.Version THEN {"InvalidPrefixListVersion"}
     ELSE {"ok"})
    \cup {"InternalError"}

\* faulty variant: the additions of a request are applied, its removals are not
AppliedAddsOnly(req) ==
    LET news == SelectSeq(req.AddEntries, LAMBDA e : e.Cidr \notin Cidrs(pl.Entries))
    IN [pl EXCEPT !.Version = @ + 1, !.Entries = pl.Entries \o news]

\* the remote list after an accepted update: the removed entries leave, the
\* added ones that are new are appended
Applied(req) ==
    LET dels == Cidrs(req.RemoveEntries)
        kept == SelectSeq(pl.Entries, LAMBDA e : e.Cidr \notin dels)
        news == SelectSeq(req.AddEntries, LAMBDA e : e.Cidr \notin Cidrs(kept))
    IN [pl EXCEPT !.Version = @ + 1, !.Entries = kept \o news]

\* another writer adds or removes one entry
ExternalWrite ==
    /\ extWrites < MaxExtWrites
    /\ pl.State = "modify-complete"
    /\ \E c \in ExternalCidrs :
         pl' = [pl EXCEPT !.Version = @ + 1,
                          !.Entries = IF c \in Cidrs(@)
                                      THEN SelectSeq(@, LAMBDA e : e.Cidr # c)
                                      ELSE Append(@, Entry(c, "other"))]
    /\ plHist' = Append(plHist, Cidrs(pl'.Entries))
    /\ extWrites' = extWrites + 1
    /\ UNCHANGED <<FQDN_LIST, uuids, runs, prev, pc, locals, outcome, trace, warned, start>>

\* the modification that was in progress when the model starts completes
RemoteSettle ==
    /\ pl.State = "modify-in-progress"
    /\ pl' = [pl EXCEPT !.State = "modify-complete"]
    /\ UNCHANGED <<FQDN_LIST, plHist, extWrites, uuids, runs, prev, pc, locals, outcome,
                   trace, warned, start>>

(***************************************************************************)
(* handler                                                                 *)
(***************************************************************************)
Return(value) ==
    /\ pc' = "done"
    /\ outcome' = [kind |-> "return", value |-> value]

Raise(type, what) ==
    /\ pc' = "done"
    /\ outcome' = [kind |-> "raise", type |-> type, what |-> what]

\* the runtime calls handler(event, context)
Invoke ==
    /\ pc \in {"idle", "done"}
    /\ runs < MaxRuns
    /\ runs' = runs + 1
    /\ prev' = IF pc = "done"
                THEN [kind |-> "run", outcome |-> outcome, desired |-> desired,
                      start |-> start,
                      tokens |-> (IF prev.kind = "run" THEN prev.tokens ELSE {})
                                 \cup {trace[k].ClientToken :
                                         k \in {j \in 1..Len(trace) : trace[j].op = "modify"}}]
                ELSE NoPrev
    /\ pc' = "pl_meta"
    /\ version' = 0 /\ max_entries' = 0 /\ af' = "" /\ state' = ""
    /\ fqdns' = <<>> /\ idx' = 1 /\ out' = {}
    /\ desired' = {} /\ current' = {} /\ to_add' = <<>> /\ to_del' = <<>>
    /\ new_ver' = 0
    /\ outcome' = NoOutcome
    /\ trace' = <<>>
    /\ warned' = <<>>
    /\ start' = [ext |-> extWrites, ver |-> pl.Version]
    /\ UNCHANGED <<envVars, uuids>>

\* faulty variant: the address family is not checked
WrongFamilyUnchecked(family) == FALSE

\* lines 44-46, and the call of _fqdns_from_env of line 48
WrongFamily(family) == family # "IPv4"

ReadMeta ==
    /\ pc = "pl_meta"
    /\ version' = _pl_meta[1]
    /\ max_entries' = _pl_meta[2]
    /\ af' = _pl_meta[3]
    /\ state' = _pl_meta[4]
    /\ trace' = Append(trace, [op |-> "describe", Version |-> _pl_meta[1]])
    /\ IF WrongFamily(_pl_meta[3])
       THEN /\ Raise("RuntimeError", "This function expects an IPv4 prefix list.")
            /\ UNCHANGED <<fqdns, idx, out>>
       ELSE /\ pc' = "resolve"
            /\ fqdns' = _fqdns_from_env(FQDN_LIST)
            /\ idx' = 1
            /\ out' = {}
            /\ UNCHANGED outcome
    /\ UNCHANGED <<envVars, uuids, runs, prev, desired, current, to_add, to_del, new_ver,
                   warned, start>>

\* faulty variant: only the first address of an answer is taken
Ipv4CidrsFirstOnly(answer) ==
    IF ip_version(answer[1]) = 4 THEN {Cidr32(answer[1])} ELSE {}

\* lines 20-26: the /32 of every IPv4 address of one getaddrinfo answer
Ipv4Cidrs(answer) ==
    {Cidr32(answer[k]) : k \in {j \in 1..Len(answer) : ip_version(answer[j]) = 4}}

\* lines 18-28: one iteration of the loop of _resolve_ipv4_cidrs
Lookup ==
    /\ pc = "resolve"
    /\ idx <= Len(fqdns)
    /\ \E answer \in DnsAnswers(fqdns[idx]) :
         /\ trace' = Append(trace, [op |-> "getaddrinfo", host |-> fqdns[idx],
                                    answer |-> answer,
                                    failed |-> (answer = <<"fail">>)])
         /\ IF answer = <<"fail">>
            THEN /\ warned' = Append(warned, fqdns[idx])
                 /\ out' = out
            ELSE /\ warned' = warned
                 /\ out' = out \cup Ipv4Cidrs(answer)
    /\ idx' = idx + 1
    /\ UNCHANGED <<envVars, uuids, runs, prev, pc, version, max_entries, af, state, fqdns,
                   desired, current, to_add, to_del, new_ver, outcome, start>>

\* faulty variant: an empty desired set is not treated as a no-op
NothingResolvedUnchecked(d) == FALSE

\* faulty variant: the ceiling is off by one
OverCeilingOffByOne(d) == Cardinality(d) > MAX_ENTRIES + 1

\* line 49
NothingResolved(d) == d = {}

\* faulty variant: the ceiling is the provisioned size of the list
OverCeilingProvisioned(d) == Cardinality(d) > max_entries

\* line 53
OverCeiling(d) == Cardinality(d) > MAX_ENTRIES

\* lines 29 and 48-54: the loop is over, desired is the set built
Built ==
    /\ pc = "resolve"
    /\ idx > Len(fqdns)
    /\ desired' = out
    /\ IF NothingResolved(out)
       THEN Return([changed |-> FALSE, reason |-> "no_resolved_ipv4"])
       ELSE IF OverCeiling(out)
       THEN Raise("RuntimeError", "Resolved entries > MAX_ENTRIES")
       ELSE pc' = "current_cidrs" /\ UNCHANGED outcome
    /\ UNCHANGED <<envVars, uuids, runs, prev, version, max_entries, af, state, fqdns, idx,
                   out, current, to_add, to_del, new_ver, trace, warned, start>>

\* faulty variant: every current entry is removed
ToDelAll(d, c) == sorted(c)

\* faulty variant: every desired entry is added again
ToAddAll(d, c) == sorted(d)

\* lines 57-58
ToAdd(d, c) == sorted(d \ c)
ToDel(d, c) == sorted(c \ d)

\* lines 56-64
ReadEntries ==
    /\ pc = "current_cidrs"
    /\ current' = _current_cidrs
    /\ to_add' = ToAdd(desired, current')
    /\ to_del' = ToDel(desired, current')
    /\ trace' = Append(trace, [op |-> "get_entries", Version |-> pl.Version])
    /\ IF to_add' = <<>> /\ to_del' = <<>>
       THEN Return([changed |-> FALSE, entries |-> Cardinality(current')])
       ELSE pc' = "modify" /\ UNCHANGED outcome
    /\ UNCHANGED <<envVars, uuids, runs, prev, version, max_entries, af, state, fqdns, idx,
                   out, desired, new_ver, warned, start>>

\* faulty variant: a busy list is not retried
RetryableVersionOnly(code) == code = "InvalidPrefixListVersion"

\* faulty variant: every ClientError is retried
RetryableAny(code) == TRUE

\* line 79
Retryable(code) == code \in {"InvalidPrefixListVersion", "IncorrectState"}

\* faulty variant: the version read at the start is reported as the new version
ChangedStaleVersion(resp) ==
    [changed |-> TRUE, added |-> to_add, removed |-> to_del, new_version |-> version]

\* lines 86-91
Changed(resp) ==
    [changed |-> TRUE, added |-> to_add, removed |-> to_del,
     new_version |-> resp.PrefixList.Version]

\* one call of _modify(cur_ver), lines 66-73, and the remote list's answer
Call_modify(cur_ver, answer) ==
    LET req == ModifyRequest(cur_ver, uuids + 1)
    IN /\ uuids' = uuids + 1
       /\ IF answer = "ok"
          THEN /\ pl' = Applied(req)
               /\ plHist' = Append(plHist, Cidrs(pl'.Entries))
               /\ trace' = Append(trace, req @@
                                         [answer |-> answer, Version |-> pl'.Version])
          ELSE /\ UNCHANGED <<pl, plHist>>
               /\ trace' = Append(trace, req @@ [answer |-> answer, Version |-> 0])

\* lines 76-79, 83-84 and 86-91: the first update call
Modify ==
    /\ pc = "modify"
    /\ \E answer \in ModifyAnswers(version) :
         /\ Call_modify(version, answer)
         /\ IF answer = "ok"
            THEN Return(Changed([PrefixList |-> [Version |-> pl'.Version]]))
            ELSE IF Retryable(answer)
            THEN pc' = "sleep" /\ UNCHANGED outcome
            ELSE Raise("ClientError", answer)
    /\ UNCHANGED <<FQDN_LIST, extWrites, runs, prev, locals, warned, start>>

\* faulty variant: the entries are read and the diff computed again before the retry
RefreshRereadsEntries ==
    /\ pc = "sleep"
    /\ new_ver' = _pl_meta[1]
    /\ current' = _current_cidrs
    /\ to_add' = ToAdd(desired, current')
    /\ to_del' = ToDel(desired, current')
    /\ trace' = trace \o <<[op |-> "describe", Version |-> _pl_meta[1]],
                            [op |-> "get_entries", Version |-> pl.Version]>>
    /\ pc' = "modify_retry"
    /\ UNCHANGED <<envVars, uuids, runs, prev, version, max_entries, af, state, fqdns, idx,
                   out, desired, outcome, warned, start>>

\* lines 80-81: time.sleep(2), then the version is read again
Refresh ==
    /\ pc = "sleep"
    /\ new_ver' = _pl_meta[1]
    /\ trace' = Append(trace, [op |-> "describe", Version |-> _pl_meta[1]])
    /\ pc' = "modify_retry"
    /\ UNCHANGED <<envVars, uuids, runs, prev, version, max_entries, af, state, fqdns, idx,
                   out, desired, current, to_add, to_del, outcome, warned, start>>

\* faulty variant: a retryable error of the second call is retried again
ModifyRetryLoops ==
    /\ pc = "modify_retry"
    /\ \E answer \in ModifyAnswers(new_ver) :
         /\ Call_modify(new_ver, answer)
         /\ IF answer = "ok"
            THEN Return(Changed([PrefixList |-> [Version |-> pl'.Version]]))
            ELSE IF Retryable(answer)
            THEN pc' = "sleep" /\ UNCHANGED outcome
            ELSE Raise("ClientError", answer)
    /\ UNCHANGED <<FQDN_LIST, extWrites, runs, prev, locals, warned, start>>

\* lines 82 and 86-91: the second update call; its exception is not caught
ModifyRetry ==
    /\ pc = "modify_retry"
    /\ \E answer \in ModifyAnswers(new_ver) :
         /\ Call_modify(new_ver, answer)
         /\ IF answer = "ok"
            THEN Return(Changed([PrefixList |-> [Version |-> pl'.Version]]))
            ELSE Raise("ClientError", answer)
    /\ UNCHANGED <<FQDN_LIST, extWrites, runs, prev, locals, warned, start>>

Next ==
    \/ Invoke
    \/ ReadMeta
    \/ Lookup
    \/ Built
    \/ ReadEntries
    \/ Modify
    \/ Refresh
    \/ ModifyRetry
    \/ ExternalWrite
    \/ RemoteSettle

\* a step of the handler between its call and its end
HandlerStep ==
    \/ ReadMeta
    \/ Lookup
    \/ Built
    \/ ReadEntries
    \/ Modify
    \/ Refresh
    \/ ModifyRetry

Spec == Init /\ [][Next]_vars

(***************************************************************************)
(* Properties                                                              *)
(***************************************************************************)
Positions(op) == {k \in 1..Len(trace) : trace[k].op = op}
ModifyCalls == SelectSeq(trace, LAMBDA e : e.op = "modify")
Lookups == SelectSeq(trace, LAMBDA e : e.op = "getaddrinfo")
FirstModify == CHOOSE k \in Positions("modify") : \A j \in Positions("modify") : k <= j

\* C1: when the first update call fails with InvalidPrefixListVersion or
\* IncorrectState, the run reads the metadata once more, exactly once, and
\* issues exactly one further update call, which carries the version just
\* read; if that call fails the run ends with its error and no further call.
\* No run issues more than two update calls.
C1_SingleRetry ==
    /\ Len(ModifyCalls) <= 2
    /\ (/\ Positions("modify") # {}
        /\ trace[FirstModify].answer \in {"InvalidPrefixListVersion", "IncorrectState"}) =>
         LET m == FirstModify IN
         /\ pc \in {"sleep", "modify_retry", "done"}
         /\ pc = "sleep" => Len(trace) = m
         /\ pc = "modify_retry" =>
              /\ Len(trace) = m + 1
              /\ trace[m + 1].op = "describe"
              /\ new_ver = trace[m + 1].Version
         /\ pc = "done" =>
              /\ Len(trace) = m + 2
              /\ trace[m + 1].op = "describe"
              /\ trace[m + 2].op = "modify"
              /\ trace[m + 2].CurrentVersion = trace[m + 1].Version
              /\ trace[m + 2].answer # "ok" =>
                   outcome = [kind |-> "raise", type |-> "ClientError",
                              what |-> trace[m + 2].answer]
              /\ trace[m + 2].answer = "ok" => outcome.kind = "return"

\* a run retried after a version conflict with a version that differs from the
\* one it read first, and the retry was accepted
C1_Witness ==
    /\ pc = "done"
    /\ Len(ModifyCalls) = 2
    /\ ModifyCalls[1].answer = "InvalidPrefixListVersion"
    /\ ModifyCalls[2].CurrentVersion # ModifyCalls[1].CurrentVersion
    /\ ModifyCalls[2].answer = "ok"

\* C2: when the first update call fails with any other cause the run ends at
\* once with that error: no metadata read and no update call follows it.
C2_OtherErrorFatal ==
    (/\ Positions("modify") # {}
     /\ trace[FirstModify].answer # "ok"
     /\ trace[FirstModify].answer \notin {"InvalidPrefixListVersion", "IncorrectState"}) =>
        /\ pc = "done"
        /\ Len(trace) = FirstModify
        /\ outcome = [kind |-> "raise", type |-> "ClientError",
                      what |-> trace[FirstModify].answer]

C2_Witness ==
    /\ pc = "done"
    /\ Len(ModifyCalls) = 1
    /\ ModifyCalls[1].answer = "InternalError"
    /\ outcome.kind = "raise"

\* C3: when the desired set has more than MAX_ENTRIES entries the run ends
\* with a RuntimeError and has issued no update call.
C3_CeilingBlocksUpdate ==
    Cardinality(desired) > MAX_ENTRIES =>
        /\ pc = "done"
        /\ outcome.kind = "raise"
        /\ outcome.type = "RuntimeError"
        /\ ModifyCalls = <<>>

\* 61 addresses were resolved while the list held entries, and the run failed
C3_Witness ==
    /\ pc = "done"
    /\ Cardinality(desired) = MAX_ENTRIES + 1
    /\ pl.Entries # <<>>
    /\ outcome.kind = "raise"

\* C4: when the list's address family is not IPv4 the run ends with a
\* RuntimeError right after the metadata read: no hostname is resolved, the
\* entries are not read, no diff is computed, no update call is issued.
C4_WrongFamilyFatalFirst ==
    pl.AddressFamily # "IPv4" =>
        /\ pc \in {"idle", "pl_meta", "done"}
        /\ \A k \in 1..Len(trace) : k = 1 /\ trace[k].op = "describe"
        /\ fqdns = <<>> /\ out = {} /\ desired = {}
        /\ current = {} /\ to_add = <<>> /\ to_del = <<>>
        /\ pc = "done" =>
             outcome = [kind |-> "raise", type |-> "RuntimeError",
                        what |-> "This function expects an IPv4 prefix list."]

C4_Witness ==
    /\ pc = "done"
    /\ af = "IPv6"
    /\ FQDN_LIST # <<>>
    /\ outcome.kind = "raise"

\* the configured hostnames, and whether this run looked each of them up in vain
Configured == _fqdns_from_env(FQDN_LIST)
NothingResolves ==
    \/ Configured = <<>>
    \/ /\ Len(Lookups) = Len(Configured)
       /\ \A k \in 1..Len(Lookups) : Lookups[k].failed

NoResolvedResult == [kind |-> "return",
                     value |-> [changed |-> FALSE, reason |-> "no_resolved_ipv4"]]

\* the run has left the list as it found it, other writers aside
UntouchedByRun ==
    /\ pl.Version - start.ver = extWrites - start.ext
    /\ extWrites = start.ext => Cidrs(pl.Entries) = plHist[start.ver]

\* C5 as stated: in every run in which every configured hostname fails to
\* resolve, or none is configured, the result is exactly
\* {changed: false, reason: "no_resolved_ipv4"}, returned and not raised, and
\* no update call occurs.
C5_Original ==
    (pc = "done" /\ NothingResolves) =>
        /\ outcome = NoResolvedResult
        /\ ModifyCalls = <<>>

\* C5 amended: the same, for the runs on a list whose address family is IPv4
\* (on any other list the run ends with the RuntimeError of line 46 before it
\* looks at the hostnames); the run leaves the list's entries as they were.
C5_NoResolvedIsNoOp ==
    (pc = "done" /\ pl.AddressFamily = "IPv4" /\ NothingResolves) =>
        /\ outcome = NoResolvedResult
        /\ ModifyCalls = <<>>
        /\ UntouchedByRun

\* every one of several configured hostnames failed, on a list with entries
C5_Witness ==
    /\ pc = "done"
    /\ Len(Configured) >= 2
    /\ Len(warned) = Len(Configured)
    /\ NothingResolves
    /\ pl.Entries # <<>>
    /\ outcome = NoResolvedResult

C7_DiffIsSetDifference ==
    Positions("get_entries") # {} =>
        /\ Range(to_add) = desired \ current
        /\ Range(to_del) = current \ desired
        /\ Len(to_add) = Cardinality(Range(to_add))
        /\ Len(to_del) = Cardinality(Range(to_del))
        /\ Range(to_add) \cap Range(to_del) = {}
        /\ (current \cup Range(to_add)) \ Range(to_del) = desired

\* the example of the specification: a.example gives 1.2.3.4, b.example gives
\* 1.2.3.5 and 1.2.3.6, the list holds 1.2.3.4/32 and 9.9.9.9/32
C7_Witness ==
    /\ current = {Cidr32(Dotted(1, 2, 3, 4)), Cidr32(Dotted(9, 9, 9, 9))}
    /\ to_add = <<Cidr32(Dotted(1, 2, 3, 5)), Cidr32(Dotted(1, 2, 3, 6))>>
    /\ to_del = <<Cidr32(Dotted(9, 9, 9, 9))>>

\* C8 as stated: every update call carries a version and a diff taken from one
\* snapshot of the list: the diff is the one between the desired set and the
\* entries the list had at exactly the version the call states.
C8_Original ==
    \A k \in Positions("modify") :
        LET v == trace[k].CurrentVersion IN
        /\ v \in 1..Len(plHist)
        /\ Cidrs(trace[k].AddEntries) = desired \ plHist[v]
        /\ Cidrs(trace[k].RemoveEntries) = plHist[v] \ desired

\* the dicts a run can return, and the errors it can raise
OkCalls == SelectSeq(ModifyCalls, LAMBDA e : e.answer = "ok")
ReturnsChanged == outcome.kind = "return" /\ outcome.value.changed

\* C9: a run returns changed = true exactly when one update call of the run
\* was accepted; added and removed are then the diff computed before the first
\* update call and new_version is the version that call reported. Every run
\* ends with the no_resolved_ipv4 result, the no-change result, the
\* changed = true result, or an error.
C9_Outcomes ==
    /\ Len(OkCalls) <= 1
    /\ pc = "done" =>
         /\ ReturnsChanged <=> Len(OkCalls) = 1
         /\ ReturnsChanged =>
              /\ outcome.value = [changed |-> TRUE, added |-> to_add, removed |-> to_del,
                                  new_version |-> OkCalls[1].Version]
              /\ to_add = [k \in 1..Len(ModifyCalls[1].AddEntries) |->
                             ModifyCalls[1].AddEntries[k].Cidr]
              /\ to_del = [k \in 1..Len(ModifyCalls[1].RemoveEntries) |->
                             ModifyCalls[1].RemoveEntries[k].Cidr]
         /\ \/ outcome = NoResolvedResult
            \/ outcome = [kind |-> "return",
                          value |-> [changed |-> FALSE, entries |-> Cardinality(current)]]
            \/ ReturnsChanged
            \/ outcome.kind = "raise"
    /\ pc # "done" => outcome = NoOutcome

\* a run whose retry was accepted returned the diff and the new version
C9_Witness ==
    /\ pc = "done"
    /\ ReturnsChanged
    /\ Len(ModifyCalls) = 2
    /\ outcome.value.new_version = pl.Version
    /\ outcome.value.new_version > version + 1

\* C10 as stated: no remote read (metadata or entries) is issued before the
\* hostname resolution has finished, and no update call before the metadata
\* and the entries have been read.
C10_Original ==
    /\ \A k \in Positions("describe") \cup Positions("get_entries") :
         \A j \in Positions("getaddrinfo") : j < k
    /\ \A k \in Positions("modify") :
         /\ \E j \in Positions("describe") : j < k
         /\ \E j \in Positions("get_entries") : j < k

\* C10 amended: the metadata is read first, before any hostname is resolved;
\* the entries are read only after every configured hostname has been looked
\* up, in one read that gives the whole entry set of the list; no update call
\* is issued before the metadata and the entries have been read.
C10_PipelineOrder ==
    /\ trace # <<>> => trace[1].op = "describe"
    /\ \A k \in Positions("get_entries") :
         /\ \A j \in Positions("getaddrinfo") : j < k
         /\ Len(Lookups) = Len(fqdns)
         /\ current = plHist[trace[k].Version]
    /\ Cardinality(Positions("get_entries")) <= 1
    /\ \A k \in Positions("modify") :
         /\ \E j \in Positions("describe") : j < k
         /\ \E j \in Positions("get_entries") : j < k

\* hostnames were looked up after the metadata read and before the read of a
\* list of several pages, and an update call followed
C10_Witness ==
    /\ Positions("modify") # {}
    /\ Len(Lookups) >= 2
    /\ Cardinality(current) > PageSize
    /\ trace[1].op = "describe"

ResolvedBlocks ==
    LET lk == Lookups
        answers == {lk[k].answer : k \in {j \in 1..Len(lk) : ~lk[j].failed}}
        v4 == {ip \in UNION {Range(a) : a \in answers} :
                 /\ \A k \in 1..Len(ip) : ip[k] # 58
                 /\ \E k \in 1..Len(ip) : ip[k] = 46}
    IN {ip \o <<47, 51, 50>> : ip \in v4}

\* C12: the desired set is the union, over the hostnames that resolved, of
\* the /32 CIDRs of their IPv4 addresses. A hostname that fails to resolve is
\* warned about, adds nothing, removes nothing that others added and does not
\* end the run: every configured hostname is looked up, in order. The set
\* depends only on the set of answers, not on their order or repetition.
C12_DesiredIsUnionOfResolved ==
    LET lk == Lookups
        conf == Configured
        failures == SelectSeq(lk, LAMBDA e : e.failed)
    IN /\ pc = "resolve" =>
            /\ out = ResolvedBlocks
            /\ Len(lk) = idx - 1
       /\ (pc \in {"current_cidrs", "modify", "sleep", "modify_retry"}
           \/ (pc = "done" /\ af = "IPv4")) =>
            /\ desired = ResolvedBlocks
            /\ Len(lk) = Len(conf)
       /\ \A k \in 1..Len(lk) : lk[k].host = conf[k]
       /\ warned = [k \in 1..Len(failures) |-> failures[k].host]

\* the same hostname failed at its first lookup and resolved at its second:
\* the run went on and the desired set holds the two addresses
C12_Witness ==
    /\ pc = "done"
    /\ Len(Lookups) = 2
    /\ Lookups[1].host = Lookups[2].host
    /\ Lookups[1].failed
    /\ ~Lookups[2].failed
    /\ desired = {Cidr32(Dotted(1, 2, 3, 5)), Cidr32(Dotted(1, 2, 3, 6))}

\* C13: a retry changes only the version and the token of the request: the
\* second update call of a run has the AddEntries and the RemoveEntries of the
\* first, and the only call between the two is the metadata read.
C13_RetrySendsSameDiff ==
    Len(ModifyCalls) >= 2 =>
        LET m == FirstModify IN
        /\ ModifyCalls[2].AddEntries = ModifyCalls[1].AddEntries
        /\ ModifyCalls[2].RemoveEntries = ModifyCalls[1].RemoveEntries
        /\ ModifyCalls[2].ClientToken # ModifyCalls[1].ClientToken
        /\ Len(trace) = m + 2
        /\ trace[m + 1].op = "describe"
        /\ trace[m + 2] = ModifyCalls[2]
        /\ Cardinality(Positions("get_entries")) = 1

\* a retry after another writer changed the list: the version sent differs, the
\* entries of the list are no longer those the run read, the diff sent is the same
C13_Witness ==
    /\ Len(ModifyCalls) = 2
    /\ ModifyCalls[2].CurrentVersion # ModifyCalls[1].CurrentVersion
    /\ ModifyCalls[2].AddEntries = ModifyCalls[1].AddEntries
    /\ ModifyCalls[1].AddEntries # <<>>
    /\ plHist[ModifyCalls[2].CurrentVersion] # current

Running == pc \notin {"idle", "done"}

\* the number of steps a run can still take, at most
StepsLeft ==
    CASE pc = "pl_meta" -> Len(Configured) + 7
      [] pc = "resolve" -> (Len(fqdns) + 1 - idx) + 5
      [] pc = "current_cidrs" -> 4
      [] pc = "modify" -> 3
      [] pc = "sleep" -> 2
      [] pc = "modify_retry" -> 1
      [] OTHER -> 0

\* C14: every run ends, with a result or an error, in a bounded number of
\* steps, given that every lookup and every remote call returns: it makes at
\* most two metadata reads, one entry read and two update calls; a running
\* handler always has a next step, and every step lowers StepsLeft, which is
\* never negative (the retry is one step, not a loop). A handler whose steps
\* are taken whenever they can be therefore reaches its end.
C14_Terminates ==
    /\ [](/\ Cardinality(Positions("describe")) <= 2
          /\ Cardinality(Positions("get_entries")) <= 1
          /\ Cardinality(Positions("modify")) <= 2
          /\ Cardinality(Positions("getaddrinfo")) <= Len(Configured)
          /\ Running => ENABLED HandlerStep
          /\ (pc = "done") <=> (outcome.kind \in {"return", "raise"})
          /\ Running <=> StepsLeft > 0)
    /\ [][HandlerStep => (0 <= StepsLeft' /\ StepsLeft' < StepsLeft)]_vars

\* a run that used all the calls it can make: two metadata reads, one entry
\* read, two update calls
C14_Witness ==
    /\ pc = "done"
    /\ Cardinality(Positions("describe")) = 2
    /\ Cardinality(Positions("get_entries")) = 1
    /\ Cardinality(Positions("modify")) = 2
    /\ Cardinality(Positions("getaddrinfo")) = 2

\* C15: the update is the last and only state-changing step of a run and is
\* all-or-nothing. At most one update call of a run is accepted, no remote
\* call of the run follows an accepted update, and a run that ends with an
\* error or with changed = false has left the entries of the list as it found
\* them. With no other writer, the entry set of the list is at every moment
\* the set the run found, up to the accepted update, and the desired set from
\* then on, never a mix of the two.
C15_UpdateLastAndAtomic ==
    /\ Len(OkCalls) <= 1
    /\ \A k \in Positions("modify") : trace[k].answer = "ok" => k = Len(trace)
    /\ (pc = "done" /\ ~ReturnsChanged) => UntouchedByRun
    /\ (pc # "idle" /\ extWrites = start.ext) =>
          Cidrs(pl.Entries) = IF OkCalls = <<>> THEN plHist[start.ver] ELSE desired

C15_Witness ==
    /\ pc = "done"
    /\ ReturnsChanged
    /\ extWrites = start.ext
    /\ Len(ModifyCalls) = 2
    /\ to_add # <<>>
    /\ to_del # <<>>
    /\ Cidrs(pl.Entries) = desired
    /\ plHist[start.ver] \ desired # {}

\* C16 as stated: whenever a run returns changed = true, the entry set of the
\* list immediately after the accepted update call of the run equals the
\* desired set of the run, also when the call was accepted on the retry after
\* another writer changed the list between the entry read and the retry.
C16_Original ==
    (pc = "done" /\ ReturnsChanged) => plHist[OkCalls[1].Version] = desired

\* what a finished run must have called and returned, as a function of the
\* address family and versions read, the DNS answers (their blocks d), the
\* entries read and the answers to the update calls; max_entries and state do
\* not occur in it
Describes == SelectSeq(trace, LAMBDA e : e.op = "describe")
CallOf(e) ==
    CASE e.op = "modify" -> [op |-> "modify", CurrentVersion |-> e.CurrentVersion,
                             AddEntries |-> e.AddEntries, RemoveEntries |-> e.RemoveEntries]
      [] e.op = "getaddrinfo" -> [op |-> "getaddrinfo", host |-> e.host]
      [] OTHER -> [op |-> e.op]
ExpectedModify(cur_ver, adds, dels) ==
    [op |-> "modify", CurrentVersion |-> cur_ver,
     AddEntries |-> [k \in 1..Len(adds) |-> [Cidr |-> adds[k], Description |-> DESC]],
     RemoveEntries |-> [k \in 1..Len(dels) |-> [Cidr |-> dels[k]]]]
ExpectedLookups(conf) ==
    [k \in 1..Len(conf) |-> [op |-> "getaddrinfo", host |-> conf[k]]]
RetriedRun == ModifyCalls[1].answer \in {"InvalidPrefixListVersion", "IncorrectState"}
ExpectedCalls(d, adds, dels) ==
    IF af # "IPv4" THEN <<[op |-> "describe"]>>
    ELSE IF d = {} \/ Cardinality(d) > 60
    THEN <<[op |-> "describe"]>> \o ExpectedLookups(Configured)
    ELSE IF adds = <<>> /\ dels = <<>>
    THEN <<[op |-> "describe"]>> \o ExpectedLookups(Configured) \o <<[op |-> "get_entries"]>>
    ELSE <<[op |-> "describe"]>> \o ExpectedLookups(Configured)
         \o <<[op |-> "get_entries"], ExpectedModify(Describes[1].Version, adds, dels)>>
         \o (IF RetriedRun
             THEN <<[op |-> "describe"], ExpectedModify(Describes[2].Version, adds, dels)>>
             ELSE <<>>)
ExpectedAfterModify(call, adds, dels) ==
    IF call.answer = "ok"
    THEN [kind |-> "return",
          value |-> [changed |-> TRUE, added |-> adds, removed |-> dels,
                     new_version |-> call.Version]]
    ELSE [kind |-> "raise", type |-> "ClientError", what |-> call.answer]
ExpectedOutcome(d, adds, dels) ==
    IF af # "IPv4"
    THEN [kind |-> "raise", type |-> "RuntimeError",
          what |-> "This function expects an IPv4 prefix list."]
    ELSE IF d = {} THEN NoResolvedResult
    ELSE IF Cardinality(d) > 60
    THEN [kind |-> "raise", type |-> "RuntimeError", what |-> "Resolved entries > MAX_ENTRIES"]
    ELSE IF adds = <<>> /\ dels = <<>>
    THEN [kind |-> "return", value |-> [changed |-> FALSE, entries |-> Cardinality(current)]]
    ELSE ExpectedAfterModify(ModifyCalls[IF RetriedRun THEN 2 ELSE 1], adds, dels)

\* C17: the provisioned maxEntries and the lifecycle state read with the
\* metadata never influence a run. The remote calls of a finished run, with
\* their payloads, and its outcome are determined by the address family and
\* versions read, the DNS answers, the entries read and the answers to the
\* update calls alone, so two runs that differ only in maxEntries and state
\* make the same calls and end in the same outcome; the only capacity check
\* is against the fixed ceiling of 60.
C17_MetadataNotUsed ==
    pc = "done" =>
        LET d == ResolvedBlocks
            adds == sorted(d \ current)
            dels == sorted(current \ d)
        IN /\ [k \in 1..Len(trace) |-> CallOf(trace[k])] = ExpectedCalls(d, adds, dels)
           /\ outcome = ExpectedOutcome(d, adds, dels)

C17_Witness ==
    /\ pc = "done"
    /\ outcome.kind = "raise"
    /\ outcome.what = "Resolved entries > MAX_ENTRIES"
    /\ Cardinality(desired) <= max_entries
    /\ state = "modify-complete"

\* C18: each update call carries a fresh idempotency token of its own. In a
\* run with a retry the token of the second update call differs from the
\* token of the first, and no token of a run was used by an earlier run.
C18_FreshTokens ==
    /\ \A i, j \in Positions("modify") :
         i # j => trace[i].ClientToken # trace[j].ClientToken
    /\ prev.kind = "run" =>
         \A i \in Positions("modify") : trace[i].ClientToken \notin prev.tokens

C18_Witness ==
    /\ pc = "done"
    /\ Len(ModifyCalls) = 2
    /\ ModifyCalls[1].ClientToken # ModifyCalls[2].ClientToken
    /\ prev.kind = "run"
    /\ prev.tokens # {}

=============================================================================
